---- MODULE Spec2Model ----
(***************************************************************************)
(* Model of the `executor` module of src/src/lib.rs: the readiness         *)
(* registry WAKERS, executor::run, and the three adapters outgoing_body,   *)
(* outgoing_request_send and incoming_body.                                *)
(*                                                                         *)
(* executor::run is generic in the future it drives.  The future handed to *)
(* run is drawn in Init from four shapes (variable `scenario`):            *)
(*   "opaque"   an arbitrary future: each poll registers some readiness    *)
(*              sources and returns Pending or Ready(v);                   *)
(*   "sink"     a producer sending chunks through outgoing_body;           *)
(*   "bridge"   a caller awaiting outgoing_request_send;                   *)
(*   "incoming" a consumer pulling items from incoming_body.               *)
(* The host (wasi:io / wasi:http) answers every call nondeterministically  *)
(* within its interface contract.                                          *)
(***************************************************************************)
EXTENDS Integers, Sequences, FiniteSets, TLC

\* ------------------------------------------------------ model bounds
MaxPending == 2       \* Pending results one run may see
MaxOpaqueRegs == 2    \* registrations an opaque future makes in one poll
MaxChunkLen == 2      \* bytes in one chunk
MaxChunks == 2        \* chunks sent through one sink
MaxCap == 2           \* largest capacity check_write reports
MaxReads == 3         \* successful non-empty reads of one incoming body
MaxBufLen == 1        \* bytes one read returns (READ_SIZE in the program)
MaxEnds == 2          \* pulls made after the sequence has ended
MaxSibling == 1       \* registrations of futures polled beside an adapter

Bytes == {0, 1}
Values == {"v1", "v2"}
Scenarios == {"opaque", "sink", "bridge", "incoming"}

VARIABLES
    scenario,     \* shape of the future handed to run
    \* ---- registry and executor::run
    WAKERS,       \* static WAKERS: sequence of registrations
    regs,         \* registrations pushed so far (gives each one an id)
    stepRegs,     \* registrations pushed during the current step
    runPc,        \* position of run: poll, pending, taken, ready, returned, panicked
    wakers,       \* run's local `wakers` (the table taken out of WAKERS)
    rounds,       \* calls of io::poll::poll made by run
    wakes,        \* calls of waker.wake()
    pendings,     \* steps that returned Poll::Pending
    stepOut,      \* value of the last Poll::Ready
    result,       \* value returned by run
    panicReason,  \* which assertion / expect / unwrap failed
    unfiredSeen,  \* some round left a registration unfired
    lockHeld,     \* a MutexGuard of WAKERS is alive
    lastReady,    \* positions io::poll::poll reported ready in the last round
    siblingRegs,  \* registrations made by futures polled beside an adapter
    \* ---- outgoing_body
    sinkState,    \* the sink: value (idle), future (send in flight), empty
                  \* (a send failed), dropped
    pairRefs,     \* strong count of the Rc `pair`
    pairHeld,     \* Outgoing.0 is Some((stream, body))
    outLife,      \* releases of the output stream and finish calls, in order
    chunk,        \* the chunk of the send in flight
    offset,       \* lib.rs 282
    flushing,     \* lib.rs 283
    calls,        \* host calls made on the output stream by the current send
    sendResult,   \* none, ok, err: result of the current send
    sends,        \* chunks handed to the sink so far
    suspended,    \* the send in flight last returned Pending
    dropKind,     \* how the sink was dropped
    \* ---- outgoing_request_send
    response,     \* the captured `response`: none (not built), future, error
    hostResp,     \* the host's future response: unresolved, ok, err, taken
    handleCalls,  \* calls of outgoing_handler::handle
    bridgeLog,    \* result of every poll of the bridge
    \* ---- incoming_body
    inner,        \* Incoming.0: Stream, Trailers, Closed
    inAlive,      \* the adapter has not been dropped
    inLife,       \* releases of the input stream and finish calls, in order
    reads,        \* results of the host reads, in order
    hostFailed,   \* the input stream has reported last-operation-failed
    trailers,     \* what FutureTrailers::get returned last
    results       \* result of every pull, in order

execVars == <<WAKERS, regs, stepRegs, runPc, wakers, rounds, wakes, pendings,
              stepOut, result, panicReason, unfiredSeen, lockHeld, lastReady,
              siblingRegs>>

sinkVars == <<sinkState, pairRefs, pairHeld, outLife, chunk, offset, flushing,
              calls, sendResult, sends, suspended, dropKind>>

bridgeVars == <<response, hostResp, handleCalls, bridgeLog>>

inVars == <<inner, inAlive, inLife, reads, hostFailed, trailers, results>>

vars == <<scenario, execVars, sinkVars, bridgeVars, inVars>>

\* ------------------------------------------------------------- helpers
Min(a, b) == IF a < b THEN a ELSE b

RECURSIVE KeepFrom(_, _, _)
\* the entries of w at positions >= i that are not in `ready`, in order
KeepFrom(w, ready, i) ==
    IF i > Len(w) THEN <<>>
    ELSE IF i \in ready THEN KeepFrom(w, ready, i + 1)
    ELSE <<w[i]>> \o KeepFrom(w, ready, i + 1)

\* faulty variant: the rebuilt table is not filled
NewWakersDropAll(w, ready) == <<>>
\* faulty variant: the fired pairs are kept as well
NewWakersKeepAll(w, ready) == w
\* lib.rs 250-256: new_wakers holds the pairs the host did not report ready
NewWakers(w, ready) == KeepFrom(w, ready, 1)

\* faulty variant: no assertion
AssertAlwaysPasses(w) == TRUE
\* lib.rs 238: assert!(!wakers.is_empty())
AssertNonEmpty(w) == w # <<>>

\* faulty variant: the push is forgotten
PushedNothing(W, src, id) == W
\* WAKERS.lock().unwrap().push((pollable, waker)): the waker is always a
\* clone of run's DummyWaker, so a registration is its source and identity
Pushed(W, src, id) == Append(W, [src |-> src, id |-> id])

\* faulty variant: the pollable is pushed twice
RegisterTwice(src) ==
    /\ ~lockHeld
    /\ WAKERS' = Pushed(Pushed(WAKERS, src, regs + 1), src, regs + 2)
    /\ regs' = regs + 2
    /\ stepRegs' = stepRegs + 2
\* the guard of WAKERS.lock() lives to the end of the push statement
Register(src) ==
    /\ ~lockHeld
    /\ WAKERS' = Pushed(WAKERS, src, regs + 1)
    /\ regs' = regs + 1
    /\ stepRegs' = stepRegs + 1

RECURSIVE RegisterN(_, _, _)
RegisterN(W, id, n) ==
    IF n = 0 THEN W ELSE RegisterN(Pushed(W, "other", id + 1), id + 1, n - 1)

\* the step of the future ends with Poll::Pending (lib.rs 235)
StepPending ==
    /\ pendings < MaxPending
    /\ runPc' = "pending"
    /\ pendings' = pendings + 1
    /\ UNCHANGED stepOut

\* the step of the future ends with Poll::Ready(v) (lib.rs 260)
StepReady(v) ==
    /\ runPc' = "ready"
    /\ stepOut' = v
    /\ UNCHANGED pendings

\* ------------------------------------------------------ opaque future
OpaquePending ==
    /\ scenario = "opaque" /\ runPc = "poll"
    /\ \E n \in 0..MaxOpaqueRegs :
        /\ WAKERS' = RegisterN(WAKERS, regs, n)
        /\ regs' = regs + n
        /\ stepRegs' = stepRegs + n
    /\ StepPending
    /\ UNCHANGED <<scenario, lockHeld, lastReady, siblingRegs,
                   wakers, rounds, wakes, result, panicReason, unfiredSeen>>
    /\ UNCHANGED <<sinkVars, bridgeVars, inVars>>

OpaqueReady ==
    /\ scenario = "opaque" /\ runPc = "poll"
    /\ \E n \in 0..MaxOpaqueRegs :
        /\ WAKERS' = RegisterN(WAKERS, regs, n)
        /\ regs' = regs + n
        /\ stepRegs' = stepRegs + n
    /\ \E v \in Values : StepReady(v)
    /\ UNCHANGED <<scenario, lockHeld, lastReady, siblingRegs,
                   wakers, rounds, wakes, result, panicReason, unfiredSeen>>
    /\ UNCHANGED <<sinkVars, bridgeVars, inVars>>

\* ------------------------------------------------------- outgoing_body
Chunks == UNION {[1..n -> Bytes] : n \in 0..MaxChunkLen}

Call(op, n, off, data, ok) == [op |-> op, n |-> n, off |-> off, data |-> data, ok |-> ok]
CheckWriteCall(n, ok) == Call("check_write", n, 0, <<>>, ok)
WriteCall(off, data, ok) == Call("write", Len(data), off, data, ok)
FlushCall(ok) == Call("flush", 0, 0, <<>>, ok)

FinishCalls == Cardinality({i \in 1..Len(outLife) : outLife[i] = "finish"})

\* faulty variant: the stream is released but the body is not finished
OutgoingDropNoFinish(held, life) ==
    IF held THEN life \o <<"stream_dropped">> ELSE life
\* lib.rs 269-274: Drop for Outgoing releases the stream, then finishes the body
OutgoingDropLife(held, life) ==
    IF held THEN life \o <<"stream_dropped", "finish">> ELSE life

\* faulty variant: the rest of the chunk is written whatever the capacity
WriteCountAll(count, remaining) == remaining
\* lib.rs 308-309: count.min(chunk.len() - offset)
WriteCount(count, remaining) == Min(count, remaining)

\* lib.rs 309: usize::try_from(count).unwrap().  check_write reports a u64;
\* the capacities 1..MaxCap stand for those that fit a usize and MaxCap + 1
\* for those that do not (a 32-bit usize on the wasm32 target)
FitsUsize(count) == count <= MaxCap

\* faulty variant: the slice is taken from the start of the chunk
WriteSliceFromStart(c, off, count) == SubSeq(c, 1, count)
\* lib.rs 311: &chunk[offset..][..count]
WriteSlice(c, off, count) == SubSeq(c, off + 1, off + count)

\* faulty variant: the offset advances whether or not the write succeeded
OffsetAfterWriteAlways(off, count, ok) == off + count
\* lib.rs 311-316: offset += count only in the Ok(()) branch
OffsetAfterWrite(off, count, ok) == IF ok THEN off + count ELSE off

\* faulty variant: completion is reported without waiting for the flush
SendCompleteUnflushed(off, len, fl) == off = len
\* lib.rs 300-302: offset == chunk.len() and flushing
SendComplete(off, len, fl) == off = len /\ fl

\* n owners of the Rc `pair` go away; the last one runs Drop for Outgoing
ReleasePair(n) ==
    /\ pairRefs' = pairRefs - n
    /\ IF pairRefs - n = 0
         THEN /\ outLife' = OutgoingDropLife(pairHeld, outLife)
              /\ pairHeld' = FALSE
         ELSE UNCHANGED <<outLife, pairHeld>>

InSinkPoll == scenario = "sink" /\ runPc = "poll" /\ sinkState = "future"

\* lib.rs 280-285: the sink takes a chunk and builds the poll_fn future
SinkStartSend ==
    /\ scenario = "sink" /\ runPc = "poll" /\ sinkState = "value"
    /\ sends < MaxChunks
    /\ \E c \in Chunks : chunk' = c
    /\ offset' = 0
    /\ flushing' = FALSE
    /\ pairRefs' = pairRefs + 1
    /\ sinkState' = "future"
    /\ calls' = <<>>
    /\ sendResult' = "none"
    /\ sends' = sends + 1
    /\ suspended' = FALSE
    /\ UNCHANGED <<pairHeld, outLife, dropKind>>
    /\ UNCHANGED <<scenario, execVars, bridgeVars, inVars>>

\* lib.rs 291-298: Ok(0) => register the stream's pollable, Poll::Pending
SinkCheckZero ==
    /\ InSinkPoll
    /\ calls' = Append(calls, CheckWriteCall(0, TRUE))
    /\ Register("out")
    /\ StepPending
    /\ suspended' = TRUE
    /\ UNCHANGED <<sinkState, pairRefs, pairHeld, outLife, chunk, offset, flushing,
                   sendResult, sends, dropKind>>
    /\ UNCHANGED <<scenario, lockHeld, lastReady, siblingRegs,
                   wakers, rounds, wakes, result, panicReason, unfiredSeen>>
    /\ UNCHANGED <<bridgeVars, inVars>>

\* lib.rs 319: check_write failed => Poll::Ready(Err("I/O error"))
SinkCheckErr ==
    /\ InSinkPoll
    /\ calls' = Append(calls, CheckWriteCall(0, FALSE))
    /\ sendResult' = "err"
    /\ sinkState' = "empty"
    /\ ReleasePair(1)
    /\ suspended' = FALSE
    /\ UNCHANGED <<chunk, offset, flushing, sends, dropKind>>
    /\ UNCHANGED <<scenario, execVars, bridgeVars, inVars>>

\* lib.rs 299-302: whole chunk written and flushed => Poll::Ready(Ok(()))
SinkDone ==
    /\ InSinkPoll
    /\ SendComplete(offset, Len(chunk), flushing)
    /\ \E count \in 1..MaxCap : calls' = Append(calls, CheckWriteCall(count, TRUE))
    /\ sendResult' = "ok"
    /\ sinkState' = "value"
    /\ ReleasePair(1)
    /\ suspended' = FALSE
    /\ UNCHANGED <<chunk, offset, flushing, sends, dropKind>>
    /\ UNCHANGED <<scenario, execVars, bridgeVars, inVars>>

\* lib.rs 303-306: whole chunk written, not yet flushed => flush
SinkFlush ==
    /\ InSinkPoll
    /\ offset = Len(chunk) /\ ~SendComplete(offset, Len(chunk), flushing)
    /\ \E count \in 1..MaxCap, ok \in BOOLEAN :
        /\ calls' = calls \o <<CheckWriteCall(count, TRUE), FlushCall(ok)>>
        /\ IF ok
             THEN flushing' = TRUE /\ UNCHANGED <<runPc, panicReason>>
             ELSE /\ runPc' = "panicked" /\ panicReason' = "flush"
                  /\ UNCHANGED flushing
    /\ suspended' = FALSE
    /\ UNCHANGED <<sinkState, pairRefs, pairHeld, outLife, chunk, offset,
                   sendResult, sends, dropKind>>
    /\ UNCHANGED <<scenario, lockHeld, lastReady, siblingRegs,
                   WAKERS, regs, stepRegs, wakers, rounds, wakes,
                   pendings, stepOut, result, unfiredSeen>>
    /\ UNCHANGED <<bridgeVars, inVars>>

\* lib.rs 307-317: write min(count, remaining) bytes at the offset
SinkWrite ==
    /\ InSinkPoll
    /\ offset < Len(chunk)
    /\ \E count \in 1..(MaxCap + 1), ok \in BOOLEAN :
        /\ FitsUsize(count)
        /\ LET n == WriteCount(count, Len(chunk) - offset)
               data == WriteSlice(chunk, offset, n)
           IN  /\ calls' = calls \o <<CheckWriteCall(count, TRUE),
                                      WriteCall(offset, data, ok)>>
               /\ offset' = OffsetAfterWrite(offset, n, ok)
               /\ IF ok
                    THEN UNCHANGED <<sendResult, sinkState, pairRefs, pairHeld,
                                     outLife>>
                    ELSE /\ sendResult' = "err"
                         /\ sinkState' = "empty"
                         /\ ReleasePair(1)
    /\ suspended' = FALSE
    /\ UNCHANGED <<chunk, flushing, sends, dropKind>>
    /\ UNCHANGED <<scenario, execVars, bridgeVars, inVars>>

\* lib.rs 309: the reported capacity does not fit a usize => unwrap panics
SinkCapacityOverflow ==
    /\ InSinkPoll
    /\ offset < Len(chunk)
    /\ \E count \in 1..(MaxCap + 1) :
        /\ ~FitsUsize(count)
        /\ calls' = Append(calls, CheckWriteCall(count, TRUE))
    /\ runPc' = "panicked"
    /\ panicReason' = "try_from"
    /\ suspended' = FALSE
    /\ UNCHANGED <<sinkState, pairRefs, pairHeld, outLife, chunk, offset, flushing,
                   sendResult, sends, dropKind>>
    /\ UNCHANGED <<scenario, lockHeld, lastReady, siblingRegs,
                   WAKERS, regs, stepRegs, wakers, rounds, wakes,
                   pendings, stepOut, result, unfiredSeen>>
    /\ UNCHANGED <<bridgeVars, inVars>>

\* lib.rs 280: sink::unfold keeps no state after a send failed; handing it
\* another chunk panics in its start_send (futures crate)
SinkSendAfterError ==
    /\ scenario = "sink" /\ runPc = "poll" /\ sinkState = "empty"
    /\ sends < MaxChunks
    /\ runPc' = "panicked"
    /\ panicReason' = "start_send"
    /\ UNCHANGED sinkVars
    /\ UNCHANGED <<scenario, lockHeld, lastReady, siblingRegs,
                   WAKERS, regs, stepRegs, wakers, rounds, wakes,
                   pendings, stepOut, result, unfiredSeen>>
    /\ UNCHANGED <<bridgeVars, inVars>>

SinkOwners == IF sinkState = "future" THEN 2 ELSE 1

DropKindNow ==
    CASE sinkState = "empty" -> "error"
      [] sinkState = "future" /\ suspended -> "suspended"
      [] sinkState = "future" /\ ~suspended -> "in_flight"
      [] sinkState = "value" /\ sends > 0 -> "success"
      [] OTHER -> "unused"

\* the sink is dropped (lib.rs 144, or the enclosing future gives it up):
\* the closure and the future in flight release `pair`, Drop for Outgoing
\* runs (lib.rs 268-275); finish(..).expect(..) panics when the host refuses
SinkDrop ==
    /\ scenario = "sink" /\ runPc = "poll"
    /\ sinkState \in {"value", "future", "empty"}
    /\ ReleasePair(SinkOwners)
    /\ sinkState' = "dropped"
    /\ dropKind' = DropKindNow
    /\ suspended' = FALSE
    /\ \E finishOk \in BOOLEAN :
        IF finishOk
          THEN /\ StepReady(IF sendResult = "err" THEN "err" ELSE "ok")
               /\ UNCHANGED panicReason
          ELSE /\ runPc' = "panicked" /\ panicReason' = "finish"
               /\ UNCHANGED <<stepOut, pendings>>
    /\ UNCHANGED <<chunk, offset, flushing, calls, sendResult, sends>>
    /\ UNCHANGED <<scenario, lockHeld, lastReady, siblingRegs,
                   WAKERS, regs, stepRegs, wakers, rounds, wakes,
                   result, unfiredSeen>>
    /\ UNCHANGED <<bridgeVars, inVars>>

\* a panic inside the future unwinds through run and drops the sink
SinkUnwind ==
    /\ scenario = "sink" /\ runPc = "panicked"
    /\ sinkState \in {"value", "future", "empty"}
    /\ ReleasePair(SinkOwners)
    /\ sinkState' = "dropped"
    /\ dropKind' = "unwind"
    /\ suspended' = FALSE
    /\ UNCHANGED <<chunk, offset, flushing, calls, sendResult, sends>>
    /\ UNCHANGED <<scenario, execVars, bridgeVars, inVars>>

\* ----------------------------------------------- outgoing_request_send
\* lib.rs 331: outgoing_handler::handle(request, None), once, when the
\* bridge is built
OutgoingRequestSend ==
    /\ scenario = "bridge" /\ runPc = "poll" /\ response = "none"
    /\ \E r \in {"future", "error"} : response' = r
    /\ handleCalls' = handleCalls + 1
    /\ UNCHANGED <<hostResp, bridgeLog>>
    /\ UNCHANGED <<scenario, execVars, sinkVars, inVars>>

\* the host resolves the future response, at any time
HostResolve ==
    /\ scenario = "bridge" /\ response = "future" /\ hostResp = "unresolved"
    /\ runPc \in {"poll", "pending", "taken"}
    /\ \E r \in {"ok", "err"} : hostResp' = r
    /\ UNCHANGED <<response, handleCalls, bridgeLog>>
    /\ UNCHANGED <<scenario, execVars, sinkVars, inVars>>

\* lib.rs 337-343: response.get() is None => register, Poll::Pending
BridgePollPending ==
    /\ scenario = "bridge" /\ runPc = "poll"
    /\ response = "future" /\ hostResp = "unresolved"
    /\ Register("response")
    /\ StepPending
    /\ bridgeLog' = Append(bridgeLog, "pending")
    /\ UNCHANGED <<response, hostResp, handleCalls>>
    /\ UNCHANGED <<scenario, lockHeld, lastReady, siblingRegs,
                   wakers, rounds, wakes, result, panicReason, unfiredSeen>>
    /\ UNCHANGED <<sinkVars, inVars>>

\* lib.rs 335-336: response.get() is Some(r) => Poll::Ready(r.unwrap())
BridgePollReady ==
    /\ scenario = "bridge" /\ runPc = "poll"
    /\ response = "future" /\ hostResp \in {"ok", "err"}
    /\ StepReady(hostResp)
    /\ hostResp' = "taken"
    /\ bridgeLog' = Append(bridgeLog, hostResp)
    /\ UNCHANGED <<response, handleCalls>>
    /\ UNCHANGED <<scenario, lockHeld, lastReady, siblingRegs,
                   WAKERS, regs, stepRegs, wakers, rounds, wakes,
                   result, panicReason, unfiredSeen>>
    /\ UNCHANGED <<sinkVars, inVars>>

\* lib.rs 345: handle itself failed => Poll::Ready(Err(error.clone()))
BridgePollErr ==
    /\ scenario = "bridge" /\ runPc = "poll"
    /\ response = "error"
    /\ StepReady("handle_err")
    /\ bridgeLog' = Append(bridgeLog, "handle_err")
    /\ UNCHANGED <<response, hostResp, handleCalls>>
    /\ UNCHANGED <<scenario, lockHeld, lastReady, siblingRegs,
                   WAKERS, regs, stepRegs, wakers, rounds, wakes,
                   result, panicReason, unfiredSeen>>
    /\ UNCHANGED <<sinkVars, inVars>>

\* ------------------------------------------------------- incoming_body
Buffers == UNION {[1..n -> Bytes] : n \in 1..MaxBufLen}

\* faulty variant: the buffer is never tested, an empty one is yielded
BufferNeverEmpty(buf) == FALSE
\* faulty variant: a one-byte buffer is taken for an empty one
BufferIsShort(buf) == Len(buf) <= 1
\* lib.rs 382: buffer.is_empty()
BufferIsEmpty(buf) == Len(buf) = 0

\* faulty variant: trailers that are present send the adapter back to reading
StateAfterTrailersRestart(t) == IF t = "some" THEN "Stream" ELSE "Closed"
\* faulty variant: the state is closed only when the trailers are no error
StateAfterTrailersIfOk(t) == IF t = "err" THEN "Trailers" ELSE "Closed"
\* lib.rs 408: the state after FutureTrailers::get returned Some(Ok(t))
StateAfterTrailers(t) == "Closed"

Read(kind, buf) == [kind |-> kind, buf |-> buf]
\* what the host returned: Ok(buffer), empty or not
ReadOk(buf) == Read(IF buf = <<>> THEN "empty" ELSE "data", buf)
Item(kind, buf) == [kind |-> kind, buf |-> buf]

InFinishCalls == Cardinality({i \in 1..Len(inLife) : inLife[i] = "finish"})
DataReads == Cardinality({i \in 1..Len(reads) : reads[i].kind = "data"})
Ends == Cardinality({i \in 1..Len(results) : results[i].kind = "end"})

InPull == scenario = "incoming" /\ runPc = "poll" /\ inAlive

\* lib.rs 380-390: non-empty buffer => Poll::Ready(Some(Ok(buffer)))
InReadData ==
    /\ InPull /\ inner = "Stream" /\ ~hostFailed
    /\ DataReads < MaxReads
    /\ \E buf \in Buffers \cup {<<>>} :
        /\ ~BufferIsEmpty(buf)
        /\ reads' = Append(reads, ReadOk(buf))
        /\ results' = Append(results, Item("data", buf))
    /\ UNCHANGED <<inner, inAlive, inLife, hostFailed, trailers>>
    /\ UNCHANGED <<scenario, execVars, sinkVars, bridgeVars>>

\* lib.rs 382-387: empty buffer => register the stream, Poll::Pending
InReadEmpty ==
    /\ InPull /\ inner = "Stream" /\ ~hostFailed
    /\ \E buf \in Buffers \cup {<<>>} :
        /\ BufferIsEmpty(buf)
        /\ reads' = Append(reads, ReadOk(buf))
    /\ results' = Append(results, Item("pending", <<>>))
    /\ Register("in")
    /\ StepPending
    /\ UNCHANGED <<inner, inAlive, inLife, hostFailed, trailers>>
    /\ UNCHANGED <<scenario, lockHeld, lastReady, siblingRegs,
                   wakers, rounds, wakes, result, panicReason, unfiredSeen>>
    /\ UNCHANGED <<sinkVars, bridgeVars>>

\* faulty variant: the body is finished while the stream is still held
ClosedTransitionFinishFirst(life) == life \o <<"finish", "stream_dropped">>
\* lib.rs 393-399: drop(stream), then IncomingBody::finish(body)
ClosedTransitionLife(life) == life \o <<"stream_dropped", "finish">>

\* lib.rs 392-400: Closed => release the stream, finish the body, go on
\* with the trailers
InReadClosed ==
    /\ InPull /\ inner = "Stream"
    /\ reads' = Append(reads, Read("closed", <<>>))
    /\ inLife' = ClosedTransitionLife(inLife)
    /\ inner' = "Trailers"
    /\ UNCHANGED <<inAlive, hostFailed, trailers, results>>
    /\ UNCHANGED <<scenario, execVars, sinkVars, bridgeVars>>

\* lib.rs 401-403: LastOperationFailed => Poll::Ready(Some(Err(..)))
InReadFailed ==
    /\ InPull /\ inner = "Stream" /\ ~hostFailed
    /\ reads' = Append(reads, Read("failed", <<>>))
    /\ results' = Append(results, Item("error", <<>>))
    /\ hostFailed' = TRUE
    /\ UNCHANGED <<inner, inAlive, inLife, trailers>>
    /\ UNCHANGED <<scenario, execVars, sinkVars, bridgeVars>>

\* lib.rs 418-424: trailers.get() is None => register, Poll::Pending
InTrailersPending ==
    /\ InPull /\ inner = "Trailers"
    /\ trailers' = "unresolved"
    /\ results' = Append(results, Item("pending", <<>>))
    /\ Register("trailers")
    /\ StepPending
    /\ UNCHANGED <<inner, inAlive, inLife, reads, hostFailed>>
    /\ UNCHANGED <<scenario, lockHeld, lastReady, siblingRegs,
                   wakers, rounds, wakes, result, panicReason, unfiredSeen>>
    /\ UNCHANGED <<sinkVars, bridgeVars>>

\* lib.rs 407-411: trailers present or absent => Closed, go on
InTrailersOk ==
    /\ InPull /\ inner = "Trailers"
    /\ \E t \in {"some", "absent"} :
        /\ trailers' = t
        /\ inner' = StateAfterTrailers(t)
    /\ UNCHANGED <<inAlive, inLife, reads, hostFailed, results>>
    /\ UNCHANGED <<scenario, execVars, sinkVars, bridgeVars>>

\* lib.rs 407-414: trailers are an error => Closed, Poll::Ready(Some(Err(..)))
InTrailersErr ==
    /\ InPull /\ inner = "Trailers"
    /\ trailers' = "err"
    /\ inner' = StateAfterTrailers("err")
    /\ results' = Append(results, Item("error", <<>>))
    /\ UNCHANGED <<inAlive, inLife, reads, hostFailed>>
    /\ UNCHANGED <<scenario, execVars, sinkVars, bridgeVars>>

\* lib.rs 427-429: Closed => Poll::Ready(None)
InClosedEnd ==
    /\ InPull /\ inner = "Closed"
    /\ Ends < MaxEnds
    /\ results' = Append(results, Item("end", <<>>))
    /\ UNCHANGED <<inner, inAlive, inLife, reads, hostFailed, trailers>>
    /\ UNCHANGED <<scenario, execVars, sinkVars, bridgeVars>>

\* faulty variant: the body is finished in every state
IncomingDropAlways(state, life) == life \o <<"stream_dropped", "finish">>
\* lib.rs 362-372: Drop for Incoming
IncomingDropLife(state, life) ==
    IF state = "Stream" THEN life \o <<"stream_dropped", "finish">> ELSE life

\* the consumer drops the adapter and its future completes
InDrop ==
    /\ InPull
    /\ inLife' = IncomingDropLife(inner, inLife)
    /\ inner' = "Closed"
    /\ inAlive' = FALSE
    /\ StepReady(IF \E i \in 1..Len(results) : results[i].kind = "error"
                   THEN "err" ELSE "ok")
    /\ UNCHANGED <<reads, hostFailed, trailers, results>>
    /\ UNCHANGED <<scenario, lockHeld, lastReady, siblingRegs,
                   WAKERS, regs, stepRegs, wakers, rounds, wakes,
                   result, panicReason, unfiredSeen>>
    /\ UNCHANGED <<sinkVars, bridgeVars>>

\* ------------------------------------------------------ executor::run
\* faulty variant: the guard is bound to a variable and outlives the statement
LockKeptAfterStatement(held) == held
\* lib.rs 237, 258: the MutexGuard is a temporary, dropped at the end of
\* the statement that locked WAKERS
LockAfterStatement(held) == FALSE

\* the future driven by run polls another future beside the adapter in the
\* same step (a join or a select); it registers a source of its own before
\* the step returns Pending
SiblingRegister ==
    /\ scenario \in {"sink", "bridge", "incoming"}
    /\ runPc = "pending"
    /\ siblingRegs < MaxSibling
    /\ ~lockHeld
    /\ WAKERS' = Pushed(WAKERS, "other", regs + 1)
    /\ regs' = regs + 1
    /\ stepRegs' = stepRegs + 1
    /\ siblingRegs' = siblingRegs + 1
    /\ UNCHANGED <<scenario, lockHeld, lastReady, runPc, wakers, rounds, wakes,
                   pendings, stepOut, result, panicReason, unfiredSeen>>
    /\ UNCHANGED <<sinkVars, bridgeVars, inVars>>

\* lib.rs 236-238: take the table out of WAKERS and assert it is non-empty
RunTake ==
    /\ runPc = "pending"
    /\ ~lockHeld
    /\ lockHeld' = LockAfterStatement(TRUE)
    /\ wakers' = WAKERS
    /\ WAKERS' = <<>>
    /\ IF AssertNonEmpty(WAKERS)
         THEN runPc' = "taken" /\ UNCHANGED panicReason
         ELSE runPc' = "panicked" /\ panicReason' = "assert"
    /\ UNCHANGED <<scenario, lastReady, siblingRegs, regs, stepRegs, rounds, wakes,
                   pendings, stepOut, result, unfiredSeen>>
    /\ UNCHANGED <<sinkVars, bridgeVars, inVars>>

\* lib.rs 240-258: blocking multi-wait, wake the ready pairs, store the rest
RunWait ==
    /\ runPc = "taken"
    /\ ~lockHeld
    /\ lockHeld' = LockAfterStatement(TRUE)
    /\ \E ready \in (SUBSET (1..Len(wakers))) \ {{}} :
        /\ lastReady' = ready
        /\ wakes' = wakes + Cardinality(ready)
        /\ WAKERS' = NewWakers(wakers, ready)
        /\ unfiredSeen' = (unfiredSeen \/ ready # 1..Len(wakers))
    /\ rounds' = rounds + 1
    /\ wakers' = <<>>
    /\ stepRegs' = 0
    /\ runPc' = "poll"
    /\ UNCHANGED <<scenario, siblingRegs, regs, pendings, stepOut, result, panicReason>>
    /\ UNCHANGED <<sinkVars, bridgeVars, inVars>>

\* lib.rs 260: Poll::Ready(result) => break result
RunReturn ==
    /\ runPc = "ready"
    /\ runPc' = "returned"
    /\ result' = stepOut
    /\ UNCHANGED <<scenario, lockHeld, lastReady, siblingRegs,
                   WAKERS, regs, stepRegs, wakers, rounds, wakes,
                   pendings, stepOut, panicReason, unfiredSeen>>
    /\ UNCHANGED <<sinkVars, bridgeVars, inVars>>

\* --------------------------------------------------------- properties
WriteIdx == {i \in 1..Len(calls) : calls[i].op = "write"}

RECURSIVE BytesAccepted(_)
\* the bytes of the successful writes of a call log, concatenated in order
BytesAccepted(log) ==
    IF log = <<>> THEN <<>>
    ELSE LET h == Head(log)
         IN  (IF h.op = "write" /\ h.ok THEN h.data ELSE <<>>) \o BytesAccepted(Tail(log))

RECURSIVE DataBufs(_)
\* the buffers of the entries of kind "data" of a log, in order
DataBufs(log) ==
    IF log = <<>> THEN <<>>
    ELSE (IF Head(log).kind = "data" THEN <<Head(log).buf>> ELSE <<>>)
             \o DataBufs(Tail(log))

KindIdx(log, kind) == {i \in 1..Len(log) : log[i].kind = kind}

\* C1: over the lifetime of an outgoing sink, finish(body, None) is never
\* called twice, and it has been called exactly once when the sink has been
\* dropped, whatever the path of the drop (after successful sends, after a
\* failed send, while a send is suspended on a capacity check).
C1_OutgoingFinishedExactlyOnce ==
    scenario = "sink" =>
        /\ FinishCalls <= 1
        /\ (sinkState = "dropped" => FinishCalls = 1)
        /\ (dropKind \in {"success", "error", "suspended"} => FinishCalls = 1)

C1_Witness ==
    /\ scenario = "sink" /\ sinkState = "dropped"
    /\ dropKind = "suspended" /\ offset < Len(chunk)
    /\ FinishCalls = 1

\* C2: the body of an incoming adapter is finished (IncomingBody::finish)
\* never twice, and exactly once when the adapter has been dropped, in
\* whichever state it was dropped.
C2_IncomingFinishedExactlyOnce ==
    scenario = "incoming" =>
        /\ InFinishCalls <= 1
        /\ (~inAlive => InFinishCalls = 1)

C2_Witness ==
    /\ scenario = "incoming" /\ ~inAlive
    /\ reads # <<>> /\ reads[Len(reads)].kind = "failed"
    /\ KindIdx(reads, "empty") # {}
    /\ InFinishCalls = 1

\* C3: the writes of a send start at offsets that only increase, each at
\* the number of bytes already accepted (none is sent again), each passes the
\* slice of the chunk at its offset, and when the send reports completion the
\* accepted slices concatenated are the chunk.
C3_ChunkWrittenExactlyOnce ==
    scenario = "sink" =>
        /\ \A i \in WriteIdx :
            /\ calls[i].off = Len(BytesAccepted(SubSeq(calls, 1, i - 1)))
            /\ calls[i].data = SubSeq(chunk, calls[i].off + 1, calls[i].off + calls[i].n)
        /\ \A i, j \in WriteIdx : i < j => calls[i].off < calls[j].off
        /\ offset = Len(BytesAccepted(calls))
        /\ (sendResult = "ok" => BytesAccepted(calls) = chunk /\ offset = Len(chunk))

C3_Witness ==
    /\ scenario = "sink" /\ sendResult = "ok"
    /\ Len(chunk) = MaxChunkLen /\ chunk[1] # chunk[2]
    /\ Cardinality(WriteIdx) >= 2
    /\ \E i \in 1..Len(calls) : calls[i].op = "check_write" /\ calls[i].ok /\ calls[i].n = 0

\* C4: as long as no read failed and the trailers are not an error, the
\* data items yielded are the non-empty buffers the host returned, in order,
\* each once, no error item is yielded, the sequence ends only after the host
\* reported Closed and the trailers resolved, and nothing follows its end.
C4_IncomingYieldsBuffersInOrder ==
    (scenario = "incoming" /\ KindIdx(reads, "failed") = {} /\ trailers # "err") =>
        /\ DataBufs(results) = DataBufs(reads)
        /\ KindIdx(results, "error") = {}
        /\ (KindIdx(results, "end") # {} =>
               /\ reads[Len(reads)].kind = "closed"
               /\ trailers \in {"some", "absent"})
        /\ \A i, j \in 1..Len(results) :
               (i < j /\ results[i].kind = "end") => results[j].kind = "end"
        /\ (inner = "Closed" /\ inAlive => KindIdx(reads, "closed") # {})

C4_Witness ==
    /\ scenario = "incoming" /\ KindIdx(reads, "failed") = {}
    /\ trailers = "absent"
    /\ Cardinality(KindIdx(reads, "data")) = MaxReads
    /\ \E i \in KindIdx(reads, "empty") : i > 1 /\ i < Len(reads) - 1
    /\ KindIdx(results, "end") # {}
    /\ Len(DataBufs(results)) = MaxReads

\* C5: after the host read reported a failure, the single error item is the
\* end of the sequence: no later host read is made and every later pull
\* returns end-of-sequence.
C5_ReadFailureEndsSequence ==
    (scenario = "incoming" /\ hostFailed) =>
        /\ reads[Len(reads)].kind = "failed"
        /\ Cardinality(KindIdx(results, "error")) = 1
        /\ \A i, j \in 1..Len(results) :
               (i < j /\ results[i].kind = "error") => results[j].kind = "end"

\* C6: when the trailers resolve to an error after k data chunks were read
\* without failure, the results are those k chunks in order, then exactly
\* one error item, then only end-of-sequence, and the state is Closed.
C6_TrailerErrorEndsSequence ==
    (scenario = "incoming" /\ trailers = "err" /\ ~hostFailed) =>
        /\ inner = "Closed"
        /\ DataBufs(results) = DataBufs(reads)
        /\ Cardinality(KindIdx(results, "error")) = 1
        /\ \A e \in KindIdx(results, "error") :
               /\ \A i \in 1..(e - 1) : results[i].kind \in {"data", "pending"}
               /\ \A i \in (e + 1)..Len(results) : results[i].kind = "end"

C6_Witness ==
    /\ scenario = "incoming" /\ trailers = "err" /\ ~hostFailed
    /\ Len(DataBufs(results)) = 2
    /\ Cardinality(KindIdx(results, "end")) = MaxEnds

\* C7: when run returns after steps that each registered sources which the
\* next multi-wait all reported ready, and its last step registered nothing,
\* it has made exactly as many multi-wait rounds as steps returned Pending,
\* it returns the value of the future's Poll::Ready, and WAKERS is empty.
C7_RunRoundsAndResult ==
    (runPc = "returned" /\ ~unfiredSeen /\ stepRegs = 0) =>
        /\ rounds = pendings
        /\ result = stepOut
        /\ WAKERS = <<>>
        /\ wakes = regs

C7_Witness ==
    /\ scenario = "opaque" /\ runPc = "returned"
    /\ ~unfiredSeen /\ stepRegs = 0
    /\ rounds = MaxPending /\ pendings = MaxPending
    /\ result \in Values

\* C8: the host multi-wait is never called with an empty list: whenever run
\* is about to call it the list taken from WAKERS is non-empty, and a step
\* that returned Pending with WAKERS empty makes run panic on its assertion
\* without a multi-wait round.
C8_NoWaitOnEmptyRegistry ==
    /\ [](runPc = "taken" => wakers # <<>>)
    /\ [][(runPc = "pending" /\ WAKERS = <<>> /\ runPc' # runPc) =>
             (runPc' = "panicked" /\ panicReason' = "assert" /\ rounds' = rounds)]_vars
    /\ [][rounds' # rounds => (runPc = "taken" /\ wakers # <<>>)]_vars

C8_Witness ==
    /\ runPc = "panicked" /\ panicReason = "assert"
    /\ pendings = rounds + 1 /\ rounds > 0

\* C9: a poll of the bridge while the response is unresolved returns Pending
\* and appends exactly one registration (the response's pollable); a poll
\* once it is resolved returns the host's result as it is and registers
\* nothing; outgoing_handler::handle is called once for a bridge, never again.
C9_BridgePolls ==
    /\ [](scenario = "bridge" => handleCalls = (IF response = "none" THEN 0 ELSE 1))
    /\ [][(scenario = "bridge" /\ bridgeLog' # bridgeLog) =>
            /\ handleCalls' = handleCalls
            /\ IF response = "future" /\ hostResp = "unresolved"
                 THEN /\ bridgeLog' = Append(bridgeLog, "pending")
                      /\ runPc' = "pending"
                      /\ regs' = regs + 1
                      /\ WAKERS' = Append(WAKERS, [src |-> "response", id |-> regs + 1])
                 ELSE /\ runPc' = "ready"
                      /\ stepOut' = (IF response = "error" THEN "handle_err" ELSE hostResp)
                      /\ bridgeLog' = Append(bridgeLog, stepOut')
                      /\ WAKERS' = WAKERS
                      /\ regs' = regs]_vars

C9_Witness ==
    /\ scenario = "bridge" /\ handleCalls = 1
    /\ bridgeLog = <<"pending", "pending", "err">>
    /\ result = "err"

\* C10: every write of a send directly follows a check_write that returned
\* a capacity K > 0, and passes min(K, bytes of the chunk not yet written)
\* bytes, at least one and at most K.
C10_WriteWithinCapacity ==
    scenario = "sink" =>
        \A i \in WriteIdx :
            /\ i > 1
            /\ calls[i - 1].op = "check_write" /\ calls[i - 1].ok
            /\ calls[i - 1].n > 0
            /\ calls[i].n = Min(calls[i - 1].n, Len(chunk) - calls[i].off)
            /\ calls[i].n = Len(calls[i].data)
            /\ calls[i].n >= 1 /\ calls[i].n <= calls[i - 1].n

C10_Witness ==
    /\ scenario = "sink"
    /\ \E i, j \in WriteIdx :
        /\ calls[i].n < calls[i - 1].n
        /\ calls[j].n < Len(chunk) - calls[j].off

FailedCalls == {i \in 1..Len(calls) : ~calls[i].ok}

\* C11: when a check_write or a write of a send fails, the send resolves
\* with an error, the failed call is the last host call of that send (no
\* later write or flush), the offset is the number of bytes accepted before
\* it, no further chunk is taken by the sink (handing it one panics), and
\* the body is finished exactly once when the sink has been dropped.
C11_HostFailureAbortsSink ==
    /\ [](scenario = "sink" =>
            /\ (\E i \in FailedCalls : calls[i].op \in {"check_write", "write"}) =>
                  /\ sendResult = "err"
                  /\ FailedCalls = {Len(calls)}
                  /\ offset = Len(BytesAccepted(calls))
                  /\ sinkState \in {"empty", "dropped"}
                  /\ (sinkState = "dropped" => FinishCalls = 1)
            /\ (sendResult = "err" =>
                  \E i \in FailedCalls : calls[i].op \in {"check_write", "write"}))
    /\ [][(scenario = "sink" /\ sendResult = "err") =>
            /\ sends' = sends /\ calls' = calls /\ offset' = offset
            /\ sendResult' = "err" /\ sinkState' \in {"empty", "dropped"}]_vars

C11_Witness ==
    /\ scenario = "sink" /\ sendResult = "err" /\ sinkState = "dropped"
    /\ calls[Len(calls)].op = "write" /\ offset > 0 /\ offset < Len(chunk)
    /\ FinishCalls = 1

\* C12: a read that returns an empty buffer leaves the adapter in Stream,
\* yields no item and does not end the sequence: the pull registers the
\* stream's pollable and returns Pending; the adapter moves from Stream to
\* Trailers only on a read that reports Closed.
C12_EmptyReadSuspends ==
    /\ [][(scenario = "incoming" /\ reads' # reads
              /\ reads'[Len(reads')].kind = "empty") =>
            /\ reads' = Append(reads, Read("empty", <<>>))
            /\ inner = "Stream" /\ inner' = "Stream"
            /\ inLife' = inLife /\ inAlive'
            /\ results' = Append(results, Item("pending", <<>>))
            /\ runPc' = "pending"
            /\ WAKERS' = Append(WAKERS, [src |-> "in", id |-> regs + 1])]_vars
    /\ [][(scenario = "incoming" /\ inner = "Stream" /\ inner' # "Stream") =>
            \/ /\ inner' = "Trailers"
               /\ reads' = Append(reads, Read("closed", <<>>))
            \/ inAlive /\ ~inAlive']_vars

C12_Witness ==
    /\ scenario = "incoming" /\ inner = "Stream" /\ runPc = "pending"
    /\ Len(reads) >= 2
    /\ reads[Len(reads)].kind = "empty" /\ reads[Len(reads) - 1].kind = "data"
    /\ WAKERS # <<>> /\ WAKERS[Len(WAKERS)].src = "in"
    /\ results[Len(results)].kind = "pending"

InnerRank(state) ==
    CASE state = "Stream" -> 1 [] state = "Trailers" -> 2 [] state = "Closed" -> 3

\* C13: Incoming.0 only moves forward along Stream, Trailers, Closed, across
\* pulls and the drop; once it is Closed a pull returns end-of-sequence and
\* makes no host call and no registration.
C13_IncomingStateForward ==
    /\ [][scenario = "incoming" => InnerRank(inner') >= InnerRank(inner)]_vars
    /\ [][(scenario = "incoming" /\ inner = "Closed") =>
            /\ inner' = "Closed"
            /\ reads' = reads /\ inLife' = inLife /\ trailers' = trailers
            /\ (inAlive' /\ runPc = "poll" => WAKERS' = WAKERS /\ regs' = regs)
            /\ (results' # results =>
                  /\ results' = Append(results, Item("end", <<>>))
                  /\ runPc' = "poll")]_vars

C13_Witness ==
    /\ scenario = "incoming" /\ inner = "Closed" /\ inAlive
    /\ Ends = MaxEnds
    /\ results[Len(results)].kind = "end" /\ results[Len(results) - 1].kind = "end"
    /\ KindIdx(results, "pending") # {}
    /\ trailers = "some"

FlushIdx == {i \in 1..Len(calls) : calls[i].op = "flush"}

\* C14: a send flushes at most once, only when the bytes accepted so far
\* are the whole chunk, and writes nothing after the flush; it reports
\* completion only after exactly one successful flush followed by a
\* check_write that returned a capacity above zero (also for an empty chunk).
C14_WriteFlushThenComplete ==
    scenario = "sink" =>
        /\ Cardinality(FlushIdx) <= 1
        /\ \A f \in FlushIdx :
              /\ BytesAccepted(SubSeq(calls, 1, f - 1)) = chunk
              /\ \A i \in WriteIdx : i < f
              /\ \A i \in (f + 1)..Len(calls) : calls[i].op = "check_write"
        /\ (sendResult = "ok" =>
              /\ Cardinality(FlushIdx) = 1
              /\ \A f \in FlushIdx :
                    /\ calls[f].ok
                    /\ f < Len(calls)
                    /\ calls[Len(calls)].op = "check_write"
                    /\ calls[Len(calls)].ok /\ calls[Len(calls)].n > 0
                    /\ \A i \in (f + 1)..(Len(calls) - 1) : calls[i].n = 0)

C14_Witness ==
    /\ scenario = "sink" /\ sendResult = "ok" /\ chunk = <<>>
    /\ \E f \in FlushIdx : f + 2 = Len(calls) /\ calls[f + 1].n = 0

StreamBeforeFinish(life) ==
    \A i \in 1..Len(life) :
        life[i] = "finish" => i > 1 /\ life[i - 1] = "stream_dropped"

\* C15: in both adapters the stream handle is released before the body
\* handle is finished (sink drop, incoming Closed transition, incoming drop
\* while reading), and no body is finished while its stream is still held.
C15_StreamReleasedBeforeFinish ==
    /\ StreamBeforeFinish(outLife)
    /\ StreamBeforeFinish(inLife)
    /\ (pairHeld => \A i \in 1..Len(outLife) : outLife[i] # "finish")
    /\ (inner = "Stream" => \A i \in 1..Len(inLife) : inLife[i] # "finish")

C15_Witness ==
    /\ scenario = "incoming" /\ inner = "Trailers"
    /\ inLife = <<"stream_dropped", "finish">>
    /\ reads # <<>> /\ reads[Len(reads)].kind = "closed"

\* C16: a multi-wait round stores back exactly the pairs the host did not
\* report ready, unchanged and in their original order, wakes every pair
\* reported ready once, and neither loses nor duplicates a pair.
C16_RoundKeepsUnfiredInOrder ==
    [][rounds' # rounds =>
        LET n == Len(wakers)
            Before(i) == Cardinality({j \in lastReady' : j < i})
        IN  /\ lastReady' \subseteq 1..n
            /\ wakes' = wakes + Cardinality(lastReady')
            /\ Len(WAKERS') = n - Cardinality(lastReady')
            /\ \A i \in (1..n) \ lastReady' :
                  WAKERS'[i - Before(i)] = wakers[i]
            /\ \A i, j \in 1..Len(WAKERS') :
                  WAKERS'[i].id = WAKERS'[j].id => i = j]_vars

C16_Witness ==
    /\ rounds = 2 /\ runPc = "poll"
    /\ Cardinality(lastReady) = 1
    /\ Len(WAKERS) = 2 /\ WAKERS[2].id = WAKERS[1].id + 2

Last(q) == q[Len(q)]

\* the adapter step taken by this transition reported Pending
AdapterPending == scenario \in {"sink", "bridge", "incoming"}
                    /\ runPc = "poll" /\ runPc' = "pending"

\* the adapter step taken by this transition returned a result
AdapterResult ==
    \/ scenario = "sink" /\ sendResult' # sendResult /\ sendResult' \in {"ok", "err"}
    \/ scenario = "bridge" /\ bridgeLog' # bridgeLog /\ Last(bridgeLog') # "pending"
    \/ scenario = "incoming" /\ results' # results /\ Last(results').kind # "pending"

\* C17: an adapter step that reports Pending has pushed exactly one
\* registration, and it did so at a check_write that returned 0 (sink), at
\* an empty read or unresolved trailers (incoming stream) or at an unresolved
\* response (bridge); an adapter step that returns a result pushes none.
C17_OneRegistrationPerSuspension ==
    /\ [][AdapterPending =>
            /\ regs' = regs + 1 /\ stepRegs' = 1
            /\ \E src \in {"out", "in", "trailers", "response"} :
                 /\ WAKERS' = Append(WAKERS, [src |-> src, id |-> regs + 1])
                 /\ src = "out" =>
                       /\ scenario = "sink"
                       /\ calls' = Append(calls, CheckWriteCall(0, TRUE))
                 /\ src = "in" =>
                       /\ scenario = "incoming" /\ inner = "Stream"
                       /\ reads' = Append(reads, Read("empty", <<>>))
                 /\ src = "trailers" =>
                       /\ scenario = "incoming" /\ inner = "Trailers"
                       /\ trailers' = "unresolved"
                 /\ src = "response" =>
                       /\ scenario = "bridge"
                       /\ response' = "future" /\ hostResp' = "unresolved"]_vars
    /\ [][AdapterResult =>
            WAKERS' = WAKERS /\ regs' = regs /\ stepRegs' = 0]_vars
    /\ [](scenario \in {"sink", "bridge", "incoming"} /\ runPc = "ready"
            => stepRegs = 0)

C17_Witness ==
    /\ scenario = "incoming" /\ runPc = "pending" /\ inner = "Trailers"
    /\ stepRegs = 1 /\ rounds = 1
    /\ WAKERS = <<[src |-> "trailers", id |-> 2]>>
    /\ Len(results) = 3 /\ results[2].kind = "data"

SendUndisturbed ==
    /\ scenario = "sink" /\ sends > 0
    /\ \A i \in 1..Len(calls) : calls[i].ok
    /\ dropKind \in {"none", "unwind"}

\* C19: as long as no host call fails, a send of a chunk of length C makes
\* at most C writes and one flush, every pass of its loop writes at least
\* one byte, flushes, suspends or finishes, and the send stays able to
\* complete: it is done, suspended on a registration, or still running,
\* never stopped for good without a result.
C19_SendMakesProgress ==
    SendUndisturbed =>
        /\ Cardinality(WriteIdx) <= Len(chunk)
        /\ Cardinality(FlushIdx) <= 1
        /\ \A i \in WriteIdx : calls[i].n >= 1
        /\ (sendResult = "ok" => Cardinality(FlushIdx) = 1)
        /\ (sendResult = "none" => runPc # "panicked")

\* the registrations of source `src` that the executor still holds, in
\* WAKERS or in the table taken out of it
Held(src) == {i \in 1..Len(WAKERS) : WAKERS[i].src = src}
               \cup {i \in 1..Len(wakers) : wakers[i].src = src}

\* C20: once an adapter has released its stream handle (drop of the sink,
\* drop of the incoming adapter, the incoming Closed transition), the
\* executor holds no registration subscribed from that stream.
C20_NoRegistrationOutlivesStream ==
    /\ (scenario = "sink" /\ ~pairHeld => Held("out") = {})
    /\ (scenario = "incoming" /\ inner # "Stream" => Held("in") = {})

\* ---------------------------------------------------------------- spec
Init ==
    /\ scenario \in Scenarios
    /\ WAKERS = <<>>
    /\ regs = 0
    /\ stepRegs = 0
    /\ runPc = "poll"
    /\ wakers = <<>>
    /\ rounds = 0
    /\ wakes = 0
    /\ pendings = 0
    /\ stepOut = "none"
    /\ result = "none"
    /\ panicReason = "none"
    /\ unfiredSeen = FALSE
    /\ lockHeld = FALSE
    /\ lastReady = {}
    /\ siblingRegs = 0
    \* lib.rs 277-278: outgoing_body has taken the stream; `pair` owns both
    /\ sinkState = "value"
    /\ pairRefs = 1
    /\ pairHeld = TRUE
    /\ outLife = <<>>
    /\ chunk = <<>>
    /\ offset = 0
    /\ flushing = FALSE
    /\ calls = <<>>
    /\ sendResult = "none"
    /\ sends = 0
    /\ suspended = FALSE
    /\ dropKind = "none"
    /\ response = "none"
    /\ hostResp = "unresolved"
    /\ handleCalls = 0
    /\ bridgeLog = <<>>
    \* lib.rs 375-376: incoming_body has taken the stream of the body
    /\ inner = "Stream"
    /\ inAlive = TRUE
    /\ inLife = <<>>
    /\ reads = <<>>
    /\ hostFailed = FALSE
    /\ trailers = "none"
    /\ results = <<>>

Next ==
    \/ OpaquePending
    \/ OpaqueReady
    \/ SinkStartSend
    \/ SinkCheckZero
    \/ SinkCheckErr
    \/ SinkDone
    \/ SinkFlush
    \/ SinkWrite
    \/ SinkCapacityOverflow
    \/ SinkSendAfterError
    \/ SinkDrop
    \/ SinkUnwind
    \/ OutgoingRequestSend
    \/ HostResolve
    \/ BridgePollPending
    \/ BridgePollReady
    \/ BridgePollErr
    \/ InReadData
    \/ InReadEmpty
    \/ InReadClosed
    \/ InReadFailed
    \/ InTrailersPending
    \/ InTrailersOk
    \/ InTrailersErr
    \/ InClosedEnd
    \/ InDrop
    \/ SiblingRegister
    \/ RunTake
    \/ RunWait
    \/ RunReturn

Spec == Init /\ [][Next]_vars
====
